---- MODULE Spec2Model ----
(***************************************************************************)
(* Usage monitor: the account scheduler (src/src/main/scheduler.ts), the   *)
(* snapshot store (src/unnamed/part_002) and the terminal automation       *)
(* engine (src/unnamed/part_004).                                          *)
(*                                                                         *)
(* The scheduler is a single-threaded event loop: every action below is    *)
(* one macrotask (a timer callback, an IPC handler, a promise settlement)  *)
(* together with the microtasks it triggers.  An engine attempt started by *)
(* the scheduler is in flight between the action that calls fetchUsage and *)
(* the action in which its promise settles.                                *)
(***************************************************************************)
EXTENDS Integers, Sequences, FiniteSets, TLC

\* ------------------------------------------------------------------ bounds
MaxTime == 1          \* the clock read by new Date() stops advancing here
MaxFails == 8         \* consecutive failed attempts allowed per account
MaxRounds == 2        \* fetchAllUsage executions in flight at once
MaxRetryRuns == 1     \* isolated retry attempts in flight per account
MaxCadence == 2       \* pending next-round timers
MaxChunks == 3        \* output chunks of one engine session
LiveMaxChunks == 2    \* the same, where termination is checked
MultiMaxFails == 1    \* the same as MaxFails, with two active accounts
MaxScriptPrompts == 2 \* setup prompts shown in one scripted session
MaxBlocks == 3        \* pieces of text in one input of the extractor

\* --------------------------------------------------------- program constants
INITIAL_BACKOFF_MS == 5000
DEFAULT_REFRESH_INTERVAL == 180000
MAX_BACKOFF_MS == 180000
ALERT_THRESHOLDS == <<80, 90, 100>>

\* The account ids that settings.json may hold.
AccountIds == {"a1", "a2"}

\* settings.accounts as loadSettings returns it: the account list in
\* definition order with the isActive flag of each account.
OneActiveAccount ==
  << [id |-> "a1", isActive |-> TRUE], [id |-> "a2", isActive |-> FALSE] >>

TwoActiveAccounts ==
  << [id |-> "a1", isActive |-> TRUE], [id |-> "a2", isActive |-> TRUE] >>

Undefined == -1       \* a missing lastUpdated

\* What one engine attempt resolves with (the four parsed fields).
UsageResults ==
  { [currentSession |-> 42, sessionResetTime |-> "2am (Zone)",
     weeklyUsage |-> 7, weeklyResetTime |-> "Mar 4 at 8pm (Zone)"],
    [currentSession |-> 85, sessionResetTime |-> "7pm (Zone)",
     weeklyUsage |-> 100, weeklyResetTime |-> "Mar 11 at 8pm (Zone)"] }

\* An attempt either resolves with a usage record or rejects.
Outcomes ==
  { [ok |-> TRUE, usage |-> u] : u \in UsageResults }
    \cup { [ok |-> FALSE, usage |-> [currentSession |-> 0, sessionResetTime |-> "",
                                     weeklyUsage |-> 0, weeklyResetTime |-> ""]] }

\* ------------------------------------------------------------- Map helpers
EmptyMap == [k \in {} |-> 0]
MapSet(m, k, v) == [x \in (DOMAIN m) \cup {k} |-> IF x = k THEN v ELSE m[x]]
MapDelete(m, k) == [x \in (DOMAIN m) \ {k} |-> m[x]]
Includes(s, x) == \E i \in 1..Len(s) : s[i] = x
Min(x, y) == IF x <= y THEN x ELSE y

VARIABLES
  \* ---- scheduler.ts module state
  schedulerTimeoutId,   \* "null" | "pending" | "fired": the timer it refers to
  mainWindow,           \* "null" | "open" | "destroyed": the window it refers to
  cadenceTimers,        \* number of pending scheduleNextFetch timers
  notificationCallback, \* TRUE once setNotificationCallback was called
  notifiedThresholds,   \* Map accountId -> [session: Seq, weekly: Seq]
  backoffState,         \* Map accountId -> current backoff ms
  retryTimers,          \* Map accountId -> delay of the pending retry timer
  retryPending,         \* accountId -> retry timers set and neither fired nor
                        \* cleared
  isFetching,           \* duplicate fetch guard
  \* ---- store
  settings,             \* settings.accounts in settings.json
  refreshInterval,      \* settings.refreshInterval in settings.json, ms
  usageCache,           \* Map accountId -> UsageData
  \* ---- execution state
  rounds,               \* fetchAllUsage executions awaiting an attempt: the
                        \* account list, the position of the loop, what runs
                        \* after the return, the accounts attempted so far
  retryRuns,            \* accountId -> retry callbacks awaiting fetchUsage
  now,                  \* the clock
  \* ---- observation of the run
  alerts,               \* alerts emitted by the last step
  suppressed,           \* alerts the last step withheld as already sent
  alertCount,           \* alerts per account/dimension/threshold since reset
  failCount,            \* consecutive failures per account
  lastDelay,            \* delay armed by the last scheduleRetry, 0 if none
  lastEvent,            \* outcome of the last attempt per account
  prevSnap,             \* snapshot an account had before its last failure
  armedDelay,           \* delay of the last next-round timer armed, 0 if none
  pushed,               \* the collections sent to the window by the last step
  stopped,              \* stopScheduler was called and startScheduler was not
                        \* called since
  note                  \* the trigger handled by the last step, and what it found

schedVars ==
  << schedulerTimeoutId, cadenceTimers, notificationCallback, notifiedThresholds,
     backoffState, retryTimers, isFetching, settings, refreshInterval,
     usageCache, rounds, retryRuns, now,
     alerts, suppressed, alertCount, failCount, lastDelay, lastEvent, prevSnap,
     armedDelay, note, mainWindow, retryPending, pushed, stopped >>

\* ---- one fetchUsage call of the automation engine (part_004): the
\* variables of its closure, as the fields of one record
\*   output         the chunks appended to the buffer so far, in order
\*   received       calls of the onData callback so far
\*   usageSent, lastAction, pendingResult, pendingError, decided, exited
\*   timeout        the 60 s timer: "armed" | "fired" | "cleared" | "unset"
\*   killSafety     the 5 s timer: "unset" | "armed" | "fired" | "cleared"
\*   child          the pty process: "running" | "exited" | "none"
\*   killRequested  ptyProcess.kill() was called
\*   promise        [state: "pending" | "resolved" | "rejected", value]
\*   settleCalls    calls of resolve / reject made by settle
\*   delayed        pending setTimeout callbacks that write to the pty, by tag
\*   written        ptyProcess.write calls made, by tag
VARIABLES eng

engVars == << eng >>

\* ---- one call of parseUsageOutput: its argument, whether it has returned,
\* and what it returned
VARIABLES extraction

extVars == << extraction >>

vars == << schedVars, engVars, extVars >>

\* Observation of a trigger: its name, the value of isFetching and the
\* accounts with a pending retry timer when it arrived.  Observation of the
\* return of a round: its account list and the accounts it attempted.
NoNote ==
  [op |-> "", flag |-> FALSE, timers |-> {}, accounts |-> << >>, done |-> << >>]
Note(s, op) ==
  [NoNote EXCEPT !.op = op, !.flag = s.isFetching, !.timers = DOMAIN s.retryTimers]
RoundNote(accounts, done) ==
  [NoNote EXCEPT !.op = "round-end", !.accounts = accounts, !.done = done]

\* The scheduler's mutable state as one value, so that the handlers below can
\* be composed in the order the code runs them.
Cur ==
  [ schedulerTimeoutId |-> schedulerTimeoutId, cadenceTimers |-> cadenceTimers,
    notificationCallback |-> notificationCallback,
    notifiedThresholds |-> notifiedThresholds, backoffState |-> backoffState,
    retryTimers |-> retryTimers, isFetching |-> isFetching,
    settings |-> settings, refreshInterval |-> refreshInterval,
    usageCache |-> usageCache, rounds |-> rounds,
    alerts |-> << >>, suppressed |-> {}, alertCount |-> alertCount, failCount |-> failCount,
    lastDelay |-> lastDelay, lastEvent |-> lastEvent, prevSnap |-> prevSnap,
    armedDelay |-> armedDelay, note |-> NoNote,
    mainWindow |-> mainWindow, retryPending |-> retryPending,
    pushed |-> << >>, stopped |-> stopped ]

Commit(s) ==
  \E t \in {s} :
    /\ schedulerTimeoutId' = t.schedulerTimeoutId
    /\ cadenceTimers' = t.cadenceTimers
    /\ notificationCallback' = t.notificationCallback
    /\ notifiedThresholds' = t.notifiedThresholds
    /\ backoffState' = t.backoffState
    /\ retryTimers' = t.retryTimers
    /\ isFetching' = t.isFetching
    /\ settings' = t.settings
    /\ refreshInterval' = t.refreshInterval
    /\ usageCache' = t.usageCache
    /\ rounds' = t.rounds
    /\ alerts' = t.alerts
    /\ suppressed' = t.suppressed
    /\ alertCount' = t.alertCount
    /\ failCount' = t.failCount
    /\ lastDelay' = t.lastDelay
    /\ lastEvent' = t.lastEvent
    /\ prevSnap' = t.prevSnap
    /\ armedDelay' = t.armedDelay
    /\ note' = t.note
    /\ mainWindow' = t.mainWindow
    /\ retryPending' = t.retryPending
    /\ pushed' = t.pushed
    /\ stopped' = t.stopped
    /\ cadenceTimers' <= MaxCadence
    /\ Len(rounds') <= MaxRounds
    /\ UNCHANGED << engVars, extVars >>

\* ------------------------------------------------------------ checkAndNotify
\* One pass of "for (const threshold of ALERT_THRESHOLDS)" over one dimension:
\* the thresholds pushed to the record, in the order they are pushed.
\* Variant: the "!record.includes(threshold)" test is missing.
RECURSIVE NotifyLoopNoRecordCheck(_, _, _)
NotifyLoopNoRecordCheck(fired, value, i) ==
  IF i > Len(ALERT_THRESHOLDS) THEN fired
  ELSE IF value >= ALERT_THRESHOLDS[i]
       THEN NotifyLoopNoRecordCheck(Append(fired, ALERT_THRESHOLDS[i]), value, i + 1)
       ELSE NotifyLoopNoRecordCheck(fired, value, i + 1)

\* Variant: a threshold is reached only when the reading is above it.
RECURSIVE NotifyLoopStrict(_, _, _)
NotifyLoopStrict(fired, value, i) ==
  IF i > Len(ALERT_THRESHOLDS) THEN fired
  ELSE IF value > ALERT_THRESHOLDS[i] /\ ~Includes(fired, ALERT_THRESHOLDS[i])
       THEN NotifyLoopStrict(Append(fired, ALERT_THRESHOLDS[i]), value, i + 1)
       ELSE NotifyLoopStrict(fired, value, i + 1)

RECURSIVE NotifyLoop(_, _, _)
NotifyLoop(fired, value, i) ==
  IF i > Len(ALERT_THRESHOLDS) THEN fired
  ELSE IF value >= ALERT_THRESHOLDS[i] /\ ~Includes(fired, ALERT_THRESHOLDS[i])
       THEN NotifyLoop(Append(fired, ALERT_THRESHOLDS[i]), value, i + 1)
       ELSE NotifyLoop(fired, value, i + 1)

\* The thresholds a pass skipped because the record already held them.
Withheld(fired, value) ==
  { t \in {ALERT_THRESHOLDS[i] : i \in 1..Len(ALERT_THRESHOLDS)} :
      value >= t /\ Includes(fired, t) }

\* The thresholds a pass added: the tail of the record after the pass.
Pushed(before, after) == SubSeq(after, Len(before) + 1, Len(after))

RECURSIVE CountAlerts(_, _, _, _)
CountAlerts(cnt, a, dim, ts) ==
  IF ts = << >> THEN cnt
  ELSE CountAlerts([cnt EXCEPT ![a][<<dim, Head(ts)>>] = @ + 1], a, dim, Tail(ts))

checkAndNotify(s, accountId, currentSession, weeklyUsage) ==
  IF ~s.notificationCallback THEN s
  ELSE
    LET record == IF accountId \in DOMAIN s.notifiedThresholds
                  THEN s.notifiedThresholds[accountId]
                  ELSE [session |-> << >>, weekly |-> << >>]
        session == NotifyLoop(record.session, currentSession, 1)
        weekly == NotifyLoop(record.weekly, weeklyUsage, 1)
        newS == Pushed(record.session, session)
        newW == Pushed(record.weekly, weekly)
    IN [s EXCEPT
          !.notifiedThresholds =
             MapSet(@, accountId, [session |-> session, weekly |-> weekly]),
          !.alerts = @ \o [i \in 1..Len(newS) |-> <<accountId, "session", newS[i]>>]
                       \o [i \in 1..Len(newW) |-> <<accountId, "weekly", newW[i]>>],
          !.suppressed = @
             \cup { <<accountId, "session", t>> :
                      t \in Withheld(record.session, currentSession) }
             \cup { <<accountId, "weekly", t>> :
                      t \in Withheld(record.weekly, weeklyUsage) },
          !.alertCount = CountAlerts(CountAlerts(@, accountId, "session", newS),
                                     accountId, "weekly", newW)]

resetNotificationRecord(s, accountId) ==
  [s EXCEPT !.notifiedThresholds = MapDelete(@, accountId),
            !.alertCount[accountId] = [k \in DOMAIN @ |-> 0]]

\* ------------------------------------------------------------------ backoff
\* Variant: the doubling is not capped.
NextBackoffValueNoCap(current) == current * 2

NextBackoffValue(current) == Min(current * 2, MAX_BACKOFF_MS)

CurrentBackoff(s, accountId) ==
  IF accountId \in DOMAIN s.backoffState
  THEN s.backoffState[accountId] ELSE INITIAL_BACKOFF_MS

\* getNextBackoff returns CurrentBackoff and stores the doubled value.
getNextBackoff(s, accountId) ==
  [s EXCEPT !.backoffState =
     MapSet(@, accountId, NextBackoffValue(CurrentBackoff(s, accountId)))]

\* Variant: a success leaves the backoff entry in place.
resetBackoffKeeps(s, accountId) == s

resetBackoff(s, accountId) ==
  [s EXCEPT !.backoffState = MapDelete(@, accountId)]

\* Variant: the pending timers of every account are cleared.
cancelRetryTimerOfAll(s, accountId) ==
  [s EXCEPT !.retryTimers = EmptyMap,
            !.retryPending = [a \in AccountIds |->
                                IF a \in DOMAIN s.retryTimers THEN @[a] - 1 ELSE @[a]]]

\* clearTimeout of the timer the map holds for the account, if it holds one.
cancelRetryTimer(s, accountId) ==
  IF accountId \in DOMAIN s.retryTimers
  THEN [s EXCEPT !.retryTimers = MapDelete(@, accountId),
                 !.retryPending[accountId] = @ - 1]
  ELSE s

\* Variant: the timers are cleared but their map entries are kept.
cancelAllRetryTimersKeepsEntries(s) ==
  [s EXCEPT !.backoffState = EmptyMap,
            !.retryPending = [a \in AccountIds |->
                                IF a \in DOMAIN s.retryTimers THEN @[a] - 1 ELSE @[a]],
            !.failCount = [a \in AccountIds |-> 0],
            !.lastDelay = [a \in AccountIds |-> 0]]

\* Every timer of the map is cleared and deleted, then backoffState.clear().
cancelAllRetryTimers(s) ==
  [s EXCEPT !.retryTimers = EmptyMap, !.backoffState = EmptyMap,
            !.retryPending = [a \in AccountIds |->
                                IF a \in DOMAIN s.retryTimers THEN @[a] - 1 ELSE @[a]],
            !.failCount = [a \in AccountIds |-> 0],
            !.lastDelay = [a \in AccountIds |-> 0]]

\* scheduleRetry up to retryTimers.set: the timer callback is RetryTimerFires.
\* Variant: the timer the map holds is not cleared first.
scheduleRetryNoCancel(s, accountId) ==
  LET delay == CurrentBackoff(s, accountId)
      s2 == getNextBackoff(s, accountId)
  IN [s2 EXCEPT !.retryTimers = MapSet(@, accountId, delay),
                !.retryPending[accountId] = @ + 1,
                !.lastDelay[accountId] = delay]

scheduleRetry(s, accountId) ==
  LET s1 == cancelRetryTimer(s, accountId)
      delay == CurrentBackoff(s1, accountId)
      s2 == getNextBackoff(s1, accountId)
  IN [s2 EXCEPT !.retryTimers = MapSet(@, accountId, delay),
                !.retryPending[accountId] = @ + 1,
                !.lastDelay[accountId] = delay]

\* --------------------------------------------------------------- snapshots
\* Variant: nothing is sent to the window.
sendUsageUpdateNever(s) == s

\* The whole cache goes to the window, unless there is no window or it was
\* destroyed.
sendUsageUpdate(s) ==
  IF s.mainWindow # "open" THEN s
  ELSE [s EXCEPT !.pushed = Append(@, s.usageCache)]

setUsageData(s, accountId, data) ==
  [s EXCEPT !.usageCache = MapSet(@, accountId, data)]

\* The UsageData built from a resolved attempt (scheduler.ts 130-137, 180-187).
FreshData(accountId, usage, t) ==
  [ accountId |-> accountId,
    currentSession |-> usage.currentSession,
    sessionResetTime |-> usage.sessionResetTime,
    weeklyUsage |-> usage.weeklyUsage,
    weeklyResetTime |-> usage.weeklyResetTime,
    lastUpdated |-> t, retrying |-> FALSE ]

\* The UsageData fetchAccountUsage builds in its catch block.
RoundFailureData(cache, accountId) ==
  IF accountId \in DOMAIN cache
  THEN [cache[accountId] EXCEPT !.retrying = TRUE]
  ELSE [ accountId |-> accountId, currentSession |-> 0, sessionResetTime |-> "",
         weeklyUsage |-> 0, weeklyResetTime |-> "",
         lastUpdated |-> Undefined, retrying |-> TRUE ]

\* The UsageData the retry callback builds in its catch block: lastUpdated is
\* dropped when the cached entry has none or is itself marked retrying.
RetryFailureData(cache, accountId, t) ==
  IF accountId \in DOMAIN cache
  THEN [cache[accountId] EXCEPT
          !.retrying = TRUE,
          !.lastUpdated = IF cache[accountId].lastUpdated = Undefined
                             \/ cache[accountId].retrying
                          THEN Undefined ELSE @]
  ELSE [ accountId |-> accountId, currentSession |-> 0, sessionResetTime |-> "",
         weeklyUsage |-> 0, weeklyResetTime |-> "",
         lastUpdated |-> Undefined, retrying |-> TRUE ]

\* Observation: an attempt of the account resolved / rejected.
ObserveSuccess(s, accountId) ==
  [s EXCEPT !.failCount[accountId] = 0, !.lastDelay[accountId] = 0,
            !.lastEvent[accountId] = "success"]

ObserveFailure(s, accountId) ==
  [s EXCEPT !.failCount[accountId] = @ + 1,
            !.lastEvent[accountId] = "failure",
            !.prevSnap = IF accountId \in DOMAIN s.usageCache
                         THEN MapSet(@, accountId, s.usageCache[accountId])
                         ELSE MapDelete(@, accountId)]

\* fetchAccountUsage after "await fetchUsage" resolved.
AccountSuccess(s, accountId, usage, t) ==
  LET data == FreshData(accountId, usage, t)
      s1 == setUsageData(ObserveSuccess(s, accountId), accountId, data)
      s2 == cancelRetryTimer(resetBackoff(s1, accountId), accountId)
  IN checkAndNotify(s2, accountId, data.currentSession, data.weeklyUsage)

\* Variant: the catch block evaluates the alerts on the preserved figures.
AccountFailureNotifies(s, accountId) ==
  LET data == RoundFailureData(s.usageCache, accountId)
      s1 == setUsageData(ObserveFailure(s, accountId), accountId, data)
  IN checkAndNotify(scheduleRetry(s1, accountId), accountId,
                    data.currentSession, data.weeklyUsage)

\* fetchAccountUsage after "await fetchUsage" rejected.
AccountFailure(s, accountId) ==
  LET data == RoundFailureData(s.usageCache, accountId)
      s1 == setUsageData(ObserveFailure(s, accountId), accountId, data)
  IN scheduleRetry(s1, accountId)

\* The retry callback after "await fetchUsage" resolved.
RetrySuccess(s, accountId, usage, t) ==
  LET data == FreshData(accountId, usage, t)
      s1 == setUsageData(ObserveSuccess(s, accountId), accountId, data)
      s2 == resetBackoff(s1, accountId)
  IN sendUsageUpdate(
       checkAndNotify(s2, accountId, data.currentSession, data.weeklyUsage))

\* Variant: the failed retry does not schedule the next one.
RetryFailureNoReschedule(s, accountId, t) ==
  LET data == RetryFailureData(s.usageCache, accountId, t)
  IN sendUsageUpdate(setUsageData(ObserveFailure(s, accountId), accountId, data))

\* The retry callback after "await fetchUsage" rejected.
RetryFailure(s, accountId, t) ==
  LET data == RetryFailureData(s.usageCache, accountId, t)
      s1 == setUsageData(ObserveFailure(s, accountId), accountId, data)
  IN scheduleRetry(sendUsageUpdate(s1), accountId)

\* ------------------------------------------------------------------ rounds
\* Variant: the isActive test is missing.
NextActiveAny(accounts, i) == IF i < Len(accounts) THEN i + 1 ELSE 0

\* Index of the first active account after position i, 0 if there is none:
\* the "for (const account of settings.accounts) if (account.isActive)" loop.
NextActive(accounts, i) ==
  LET later == { j \in (i + 1)..Len(accounts) : accounts[j].isActive }
  IN IF later = {} THEN 0 ELSE CHOOSE j \in later : \A k \in later : j <= k

scheduleNextFetch(s) ==
  [s EXCEPT !.schedulerTimeoutId = "pending", !.cadenceTimers = @ + 1,
            !.armedDelay = s.refreshInterval]

\* Variant: nothing runs after fetchAllUsage returned.
ContinueNever(s, cont) == s

\* What runs after fetchAllUsage returned: scheduleNextFetch for the timer
\* callback and for startScheduler, nothing for the tray and the IPC handler.
Continue(s, cont) == IF cont = "chain" THEN scheduleNextFetch(s) ELSE s

\* Variant: the duplicate guard is missing.
fetchAllUsageUnguarded(s, cont) ==
  IF NextActive(s.settings, 0) = 0
  THEN Continue([sendUsageUpdate(s) EXCEPT !.isFetching = FALSE], cont)
  ELSE [s EXCEPT !.isFetching = TRUE,
                 !.rounds = Append(@, [accounts |-> s.settings,
                                       idx |-> NextActive(s.settings, 0),
                                       cont |-> cont, done |-> << >>])]

\* fetchAllUsage up to its first await; a round with no active account (or a
\* skipped call) runs to its end, continuation included, in the same step.
fetchAllUsage(s, cont) ==
  IF s.isFetching THEN Continue(s, cont)
  ELSE IF NextActive(s.settings, 0) = 0
       THEN Continue([sendUsageUpdate(s) EXCEPT !.isFetching = FALSE], cont)
  ELSE [s EXCEPT !.isFetching = TRUE,
                 !.rounds = Append(@, [accounts |-> s.settings,
                                       idx |-> NextActive(s.settings, 0),
                                       cont |-> cont, done |-> << >>])]

RemoveAt(seq, k) == SubSeq(seq, 1, k - 1) \o SubSeq(seq, k + 1, Len(seq))

\* Variant: the finally block is missing.
AdvanceRoundNoFinally(s, k) ==
  LET r == s.rounds[k]
      j == NextActive(r.accounts, r.idx)
      done == Append(r.done, r.accounts[r.idx].id)
  IN IF j # 0 THEN [s EXCEPT !.rounds[k].idx = j, !.rounds[k].done = done]
     ELSE Continue([sendUsageUpdate(s) EXCEPT
                      !.rounds = RemoveAt(@, k),
                      !.note = RoundNote(r.accounts, done)],
                   r.cont)

\* Round k after the attempt of its current account was handled: the loop
\* goes on to the next active account, or the round ends (finally block).
AdvanceRound(s, k) ==
  LET r == s.rounds[k]
      j == NextActive(r.accounts, r.idx)
      done == Append(r.done, r.accounts[r.idx].id)
  IN IF j # 0 THEN [s EXCEPT !.rounds[k].idx = j, !.rounds[k].done = done]
     ELSE Continue([sendUsageUpdate(s) EXCEPT
                      !.rounds = RemoveAt(@, k), !.isFetching = FALSE,
                      !.note = RoundNote(r.accounts, done)],
                   r.cont)

stopScheduler(s) ==
  LET s1 == IF s.schedulerTimeoutId # "null"
            THEN [s EXCEPT !.schedulerTimeoutId = "null",
                           !.cadenceTimers =
                              IF s.schedulerTimeoutId = "pending" THEN @ - 1 ELSE @]
            ELSE s
  IN [cancelAllRetryTimers(s1) EXCEPT !.stopped = TRUE]

startScheduler(s) ==
  LET s1 == [stopScheduler(s) EXCEPT !.stopped = FALSE]
  IN IF Len(s1.settings) = 0 THEN s1 ELSE fetchAllUsage(s1, "chain")

restartScheduler(s) == startScheduler(stopScheduler(s))

\* Variant: the flag is left as it is.
handleSystemResumeKeepsFlag(s) ==
  [startScheduler(stopScheduler(cancelAllRetryTimers(s)))
     EXCEPT !.note = Note(s, "resume")]

handleSystemResume(s) ==
  [startScheduler(stopScheduler(cancelAllRetryTimers([s EXCEPT !.isFetching = FALSE])))
     EXCEPT !.note = Note(s, "resume")]

\* Variant: the retry chains are left alone.
resetRetryStatesKeeps(s) == s

resetRetryStates(s) == cancelAllRetryTimers(s)

\* store.removeAccount: the account leaves settings.json.
IsNotAccount(accountId, a) == a.id # accountId
removeAccount(s, accountId) ==
  [s EXCEPT !.settings = SelectSeq(@, LAMBDA a : IsNotAccount(accountId, a))]

\* ----------------------------------------------------------------- actions
SchedInit(accounts) ==
  /\ settings = accounts
  /\ refreshInterval = DEFAULT_REFRESH_INTERVAL
  /\ schedulerTimeoutId = "null"
  /\ cadenceTimers = 0
  /\ notificationCallback = FALSE
  /\ notifiedThresholds = EmptyMap
  /\ backoffState = EmptyMap
  /\ retryTimers = EmptyMap
  /\ isFetching = FALSE
  /\ usageCache = EmptyMap
  /\ rounds = << >>
  /\ retryRuns = [a \in AccountIds |-> 0]
  /\ now = 0
  /\ alerts = << >>
  /\ suppressed = {}
  /\ alertCount = [a \in AccountIds |->
                     [k \in {"session", "weekly"} \X {80, 90, 100} |-> 0]]
  /\ failCount = [a \in AccountIds |-> 0]
  /\ lastDelay = [a \in AccountIds |-> 0]
  /\ lastEvent = [a \in AccountIds |-> "none"]
  /\ prevSnap = EmptyMap
  /\ armedDelay = 0
  /\ note = NoNote
  /\ mainWindow = "null"
  /\ retryPending = [a \in AccountIds |-> 0]
  /\ pushed = << >>
  /\ stopped = FALSE

\* Time passes.
Tick ==
  /\ now < MaxTime
  /\ now' = now + 1
  /\ alerts' = << >>
  /\ suppressed' = {}
  /\ note' = NoNote
  /\ pushed' = << >>
  /\ UNCHANGED << schedulerTimeoutId, cadenceTimers, notificationCallback,
                  notifiedThresholds, backoffState, retryTimers, isFetching,
                  settings, refreshInterval, usageCache, rounds, retryRuns,
                  alertCount, failCount, lastDelay, lastEvent, prevSnap,
                  armedDelay, mainWindow, retryPending, stopped >>
  /\ UNCHANGED << engVars, extVars >>

\* createWindow: a new window, and setMainWindow.
SetMainWindow ==
  /\ mainWindow # "open"
  /\ Commit([Cur EXCEPT !.mainWindow = "open"])
  /\ UNCHANGED << retryRuns, now >>

\* The window is closed for good: the scheduler keeps its reference.
WindowDestroyed ==
  /\ mainWindow = "open"
  /\ Commit([Cur EXCEPT !.mainWindow = "destroyed"])
  /\ UNCHANGED << retryRuns, now >>

SetNotificationCallback ==
  /\ ~notificationCallback
  /\ Commit([Cur EXCEPT !.notificationCallback = TRUE])
  /\ UNCHANGED << retryRuns, now >>

StartScheduler ==
  /\ Commit(startScheduler(Cur))
  /\ UNCHANGED << retryRuns, now >>

RestartScheduler ==
  /\ Commit(restartScheduler(Cur))
  /\ UNCHANGED << retryRuns, now >>

StopScheduler ==
  /\ Commit(stopScheduler(Cur))
  /\ UNCHANGED << retryRuns, now >>

HandleSystemResume ==
  /\ Commit(handleSystemResume(Cur))
  /\ UNCHANGED << retryRuns, now >>

\* ipcMain.handle('refresh-usage'): resetRetryStates, then fetchAllUsage.
ManualRefresh ==
  /\ Commit([fetchAllUsage(resetRetryStates(Cur), "none")
               EXCEPT !.note = Note(Cur, "refresh")])
  /\ UNCHANGED << retryRuns, now >>

\* The tray menu's Refresh item: fetchAllUsage alone.
TrayRefresh ==
  /\ Commit(fetchAllUsage(Cur, "none"))
  /\ UNCHANGED << retryRuns, now >>

\* ipcMain.handle('remove-account'): removeAccount, then restartScheduler.
RemoveAccount ==
  \E i \in 1..Len(settings) :
    /\ Commit([restartScheduler(removeAccount(Cur, settings[i].id))
                 EXCEPT !.note = Note(Cur, "remove-account")])
    /\ UNCHANGED << retryRuns, now >>

\* ipcMain.handle('set-refresh-interval'): the interval is saved, then
\* restartScheduler.
RefreshIntervals == { 60000, 300000 }

SetRefreshInterval ==
  \E interval \in RefreshIntervals :
    /\ Commit([restartScheduler([Cur EXCEPT !.refreshInterval = interval])
                 EXCEPT !.note = Note(Cur, "set-refresh-interval")])
    /\ UNCHANGED << retryRuns, now >>

ResetNotificationRecord ==
  \E a \in AccountIds :
    /\ Commit(resetNotificationRecord(Cur, a))
    /\ UNCHANGED << retryRuns, now >>

\* A scheduleNextFetch timer fires: the one schedulerTimeoutId refers to, or
\* one whose id was overwritten by a later scheduleNextFetch.
SchedulerTimerFires ==
  \E ref \in BOOLEAN :
    /\ IF ref THEN schedulerTimeoutId = "pending"
       ELSE cadenceTimers > (IF schedulerTimeoutId = "pending" THEN 1 ELSE 0)
    /\ Commit(fetchAllUsage(
         [Cur EXCEPT !.cadenceTimers = @ - 1,
                     !.schedulerTimeoutId = IF ref THEN "fired" ELSE @],
         "chain"))
    /\ UNCHANGED << retryRuns, now >>

\* The retry timer of an account fires: the callback deletes the map entry
\* and calls fetchUsage.
RetryTimerFires ==
  \E a \in AccountIds :
    /\ retryPending[a] > 0
    /\ retryRuns[a] < MaxRetryRuns
    /\ Commit([Cur EXCEPT !.retryTimers = MapDelete(@, a),
                          !.retryPending[a] = @ - 1])
    /\ retryRuns' = [retryRuns EXCEPT ![a] = @ + 1]
    /\ UNCHANGED now

\* The attempt a round awaits settles with one of the outcomes outs:
\* fetchAccountUsage finishes and the round moves on.
RoundAttemptSettles(outs, maxFails) ==
  \E k \in 1..Len(rounds), o \in outs :
    LET a == rounds[k].accounts[rounds[k].idx].id
    IN /\ o.ok \/ failCount[a] < maxFails
       /\ Commit(AdvanceRound(
            IF o.ok THEN AccountSuccess(Cur, a, o.usage, now)
            ELSE AccountFailure(Cur, a), k))
       /\ UNCHANGED << retryRuns, now >>

\* The attempt a retry callback awaits settles.
RetryAttemptSettles(outs, maxFails) ==
  \E a \in AccountIds, o \in outs :
    /\ retryRuns[a] > 0
    /\ o.ok \/ failCount[a] < maxFails
    /\ Commit(IF o.ok THEN RetrySuccess(Cur, a, o.usage, now)
              ELSE RetryFailure(Cur, a, now))
    /\ retryRuns' = [retryRuns EXCEPT ![a] = @ - 1]
    /\ UNCHANGED now

\* ======================================================== automation engine
\* Terminal output is a sequence of tokens: prompt text, escape sequences,
\* "N% used" figures and reset times.
Text(v) == [k |-> "text", v |-> v, n |-> 0]
Esc == [k |-> "esc", v |-> "ESC[0m", n |-> 0]
Pct(n) == [k |-> "pct", v |-> "% used", n |-> n]
Clock(v) == [k |-> "clock", v |-> v, n |-> 0]
Date(v) == [k |-> "date", v |-> v, n |-> 0]

\* The screens the child may print, one per chunk.
ThemeChunk == << Esc, Text("Dark mode"), Esc, Text("Light mode") >>
LoginMethodChunk == << Text("Select login method") >>
LoginContinueChunk == << Text("Login successful"), Text("continue") >>
SecurityChunk == << Text("Security notes"), Text("Enter") >>
TerminalSetupChunk == << Text("terminalsetup"), Text("recommendedsettings") >>
TrustChunk == << Esc, Text("trust this folder") >>
BypassChunk == << Text("Bypass Permissions mode"), Text("Yes, I accept") >>
LoggedChunk == << Text("Logged") >>
MainChunk == << Esc, Text("Welcome back") >>
MenuChunk == << Text("/usage"), Text("Show plan usage limits") >>
EchoChunk == << Text("/usage") >>
SessionChunk ==
  << Text("Current session"), Esc, Pct(42), Text("Resets"), Clock("2am (Zone)") >>
WeekChunk ==
  << Text("Current week"), Esc, Pct(7), Text("Resets"), Date("Mar 4 at 8pm (Zone)") >>

RECURSIVE Flatten(_)
Flatten(chunks) ==
  IF chunks = << >> THEN << >> ELSE Head(chunks) \o Flatten(Tail(chunks))

IsNotEsc(t) == t.k # "esc"
stripAnsi(toks) == SelectSeq(toks, IsNotEsc)

\* cleaned.includes(v1) || cleaned.includes(v2) ...
IncludesAny(cleaned, vs) ==
  \E i \in 1..Len(cleaned) : cleaned[i].k = "text" /\ cleaned[i].v \in vs

\* Smallest index in a non-empty set.
Least(S) == CHOOSE i \in S : \A j \in S : i <= j

NoUsage ==
  [ matched |-> FALSE, currentSession |-> 0, sessionResetTime |-> "",
    weeklyUsage |-> 0, weeklyResetTime |-> "" ]

\* /<label>[\s\S]*?(\d+)%\s*used/: the first figure after the first label.
FigureAfter(cleaned, label) ==
  LET labels == { i \in 1..Len(cleaned) :
                    cleaned[i].k = "text" /\ cleaned[i].v = label }
      figs == IF labels = {} THEN {}
              ELSE { j \in 1..Len(cleaned) :
                       j > Least(labels) /\ cleaned[j].k = "pct" }
  IN IF figs = {} THEN -1 ELSE cleaned[Least(figs)].n

\* The first reset time of the given kind anywhere in the text.
FirstOfKind(cleaned, kind) ==
  LET is == { i \in 1..Len(cleaned) : cleaned[i].k = kind }
  IN IF is = {} THEN "" ELSE cleaned[Least(is)].v

\* Variant: a record is returned only if both percentages matched.
parseUsageOutputBoth(out) ==
  LET cleaned == stripAnsi(Flatten(out))
      sessionMatch == FigureAfter(cleaned, "Current session")
      weeklyMatch == FigureAfter(cleaned, "Current week")
  IN IF sessionMatch = -1 \/ weeklyMatch = -1 THEN NoUsage
     ELSE [ matched |-> TRUE,
            currentSession |-> sessionMatch,
            sessionResetTime |-> FirstOfKind(cleaned, "clock"),
            weeklyUsage |-> weeklyMatch,
            weeklyResetTime |-> FirstOfKind(cleaned, "date") ]

parseUsageOutput(out) ==
  LET cleaned == stripAnsi(Flatten(out))
      sessionMatch == FigureAfter(cleaned, "Current session")
      weeklyMatch == FigureAfter(cleaned, "Current week")
  IN IF sessionMatch = -1 /\ weeklyMatch = -1 THEN NoUsage
     ELSE [ matched |-> TRUE,
            currentSession |-> IF sessionMatch = -1 THEN 0 ELSE sessionMatch,
            sessionResetTime |-> FirstOfKind(cleaned, "clock"),
            weeklyUsage |-> IF weeklyMatch = -1 THEN 0 ELSE weeklyMatch,
            weeklyResetTime |-> FirstOfKind(cleaned, "date") ]

\* cleaned.match(/(\d+)%\s*used/gi).length
UsedMatches(cleaned) ==
  Cardinality({ i \in 1..Len(cleaned) : cleaned[i].k = "pct" })

\* Pieces of text an input of the extractor is made of: the two blocks as
\* the CLI prints them, a session block whose figure is not printed yet, a
\* week block that resets today, a reset line, a figure and a prompt alone.
SessionLabelChunk == << Text("Current session") >>
WeekTodayChunk ==
  << Text("Current week"), Pct(85), Text("Resets"), Clock("8pm (Zone)") >>
ResetChunk == << Text("Resets"), Clock("7pm (Zone)") >>
FigureChunk == << Esc, Pct(100) >>

ExtractBlocks ==
  { SessionChunk, WeekChunk, SessionLabelChunk, WeekTodayChunk, ResetChunk,
    FigureChunk, MainChunk }

ExtractInputs == UNION { [1..n -> ExtractBlocks] : n \in 0..MaxBlocks }

\* No call of parseUsageOutput is being looked at.
ExtractIdle ==
  extraction = [input |-> << >>, returned |-> FALSE, result |-> NoUsage]

\* parseUsageOutput is called with some text.
ExtractCalled ==
  \E text \in ExtractInputs :
    extraction = [input |-> text, returned |-> FALSE, result |-> NoUsage]

\* parseUsageOutput returns.
ExtractReturns ==
  /\ ~extraction.returned
  /\ extraction' = [extraction EXCEPT
                      !.returned = TRUE,
                      !.result = parseUsageOutput(extraction.input)]
  /\ UNCHANGED << schedVars, engVars >>

\* The tags of the delayed and direct writes to the pty.
PromptTags ==
  { "theme", "login-method", "login-continue", "security", "terminal-setup",
    "trust", "bypass", "usage-enter" }
WriteTags == PromptTags \cup { "bypass-enter", "usage", "usage-submit", "interrupt" }

EngCommit(e) ==
  /\ eng' = e
  /\ UNCHANGED << schedVars, extVars >>

\* resolve / reject of the promise: only the first call settles it.
CallResolve(e, value) ==
  [e EXCEPT !.settleCalls = @ + 1,
            !.promise = IF @.state = "pending"
                        THEN [state |-> "resolved", value |-> value] ELSE @]

CallReject(e, message) ==
  [e EXCEPT !.settleCalls = @ + 1,
            !.promise = IF @.state = "pending"
                        THEN [state |-> "rejected",
                              value |-> [NoUsage EXCEPT !.sessionResetTime = message]]
                        ELSE @]

ClearTimer(t) == IF t = "armed" THEN "cleared" ELSE t

\* Variant: the caller is settled as soon as a decision is latched.
settleOnDecision(e) ==
  IF ~e.decided THEN e
  ELSE LET e1 == [e EXCEPT !.timeout = ClearTimer(@), !.killSafety = ClearTimer(@)]
       IN IF e1.pendingResult.matched
          THEN CallResolve(e1, e1.pendingResult)
          ELSE CallReject(e1, IF e1.pendingError # "" THEN e1.pendingError
                              ELSE "Unknown error")

settle(e) ==
  IF ~e.decided \/ ~e.exited THEN e
  ELSE LET e1 == [e EXCEPT !.timeout = ClearTimer(@), !.killSafety = ClearTimer(@)]
       IN IF e1.pendingResult.matched
          THEN CallResolve(e1, e1.pendingResult)
          ELSE CallReject(e1, IF e1.pendingError # "" THEN e1.pendingError
                              ELSE "Unknown error")

\* Variant: the safety timer is not started.
finishNoSafety(e, result, error) ==
  IF e.decided THEN e
  ELSE settle([e EXCEPT !.decided = TRUE, !.pendingResult = result,
                        !.pendingError = error, !.killRequested = TRUE])

finish(e, result, error) ==
  IF e.decided THEN e
  ELSE settle([e EXCEPT !.decided = TRUE, !.pendingResult = result,
                        !.pendingError = error, !.killRequested = TRUE,
                        !.killSafety = "armed"])

\* A prompt rule fires: lastAction is set and the keystroke is scheduled.
Fire(e, tag) ==
  [e EXCEPT !.lastAction = tag, !.delayed[tag] = @ + 1]

\* Variant: the usage command is scheduled whenever the main prompt shows.
ShouldSendUsageAlways(e, cleaned) ==
  IncludesAny(cleaned, {"Welcomeback", "Welcome back", "bypasspermissionson",
                        "bypass permissions on"})

\* hasMainPrompt && !usageSent
ShouldSendUsage(e, cleaned) ==
  /\ IncludesAny(cleaned, {"Welcomeback", "Welcome back", "bypasspermissionson",
                           "bypass permissions on"})
  /\ ~e.usageSent

\* ptyProcess.onData after "output += data": the rules, in the order of the
\* code; the first one that applies ends the callback.
OnDataRules(e, cleaned) ==
    IF /\ IncludesAny(cleaned, {"Darkmode", "Dark mode"})
       /\ IncludesAny(cleaned, {"Lightmode", "Light mode"})
       /\ ~IncludesAny(cleaned, {"Logged"})
       /\ e.lastAction # "theme"
    THEN Fire(e, "theme")
    ELSE IF /\ IncludesAny(cleaned, {"Selectloginmethod", "Select login method"})
            /\ e.lastAction # "login-method"
    THEN Fire(e, "login-method")
    ELSE IF /\ IncludesAny(cleaned, {"Loginsuccessful", "Login successful"})
            /\ IncludesAny(cleaned, {"continue"})
            /\ e.lastAction # "login-continue"
    THEN Fire(e, "login-continue")
    ELSE IF /\ IncludesAny(cleaned, {"Securitynotes", "Security notes"})
            /\ IncludesAny(cleaned, {"Enter"})
            /\ e.lastAction # "security"
    THEN Fire(e, "security")
    ELSE IF /\ IncludesAny(cleaned, {"terminalsetup", "terminal setup"})
            /\ IncludesAny(cleaned, {"recommendedsettings", "recommended settings"})
            /\ e.lastAction # "terminal-setup"
    THEN Fire(e, "terminal-setup")
    ELSE IF /\ IncludesAny(cleaned, {"trustthisfolder", "trust this folder"})
            /\ e.lastAction # "trust"
    THEN Fire(e, "trust")
    ELSE IF /\ IncludesAny(cleaned, {"BypassPermissionsmode", "Bypass Permissions mode"})
            /\ IncludesAny(cleaned, {"Yes,Iaccept", "Yes, I accept"})
            /\ e.lastAction # "bypass"
    THEN Fire(e, "bypass")
    ELSE IF ShouldSendUsage(e, cleaned)
    THEN [e EXCEPT !.usageSent = TRUE, !.delayed["usage"] = @ + 1]
    ELSE IF /\ e.usageSent
            /\ IncludesAny(cleaned, {"Showplanusagelimits", "Show plan usage limits"})
            /\ e.lastAction # "usage-enter"
    THEN Fire(e, "usage-enter")
    ELSE IF /\ UsedMatches(cleaned) >= 2
            /\ e.usageSent
            /\ parseUsageOutput(e.output).matched
    THEN finish([e EXCEPT !.written["interrupt"] = @ + 1],
                parseUsageOutput(e.output), "")
    ELSE e

\* Variant: the "if (decided) return" line is missing.
onDataUnlatched(e0, data) ==
  LET e == [e0 EXCEPT !.received = @ + 1, !.output = Append(@, data)]
  IN OnDataRules(e, stripAnsi(Flatten(e.output)))

\* ptyProcess.onData
onData(e0, data) ==
  IF e0.decided THEN [e0 EXCEPT !.received = @ + 1]
  ELSE
    LET e == [e0 EXCEPT !.received = @ + 1, !.output = Append(@, data)]
    IN OnDataRules(e, stripAnsi(Flatten(e.output)))

\* Variant: the timer does not look at the output.
onTimeoutNoExtraction(e) ==
  finish([e EXCEPT !.timeout = "fired"], NoUsage, "Timeout waiting for usage data")

\* The 60 s timer.
onTimeout(e) ==
  LET parsed == parseUsageOutput(e.output)
      e1 == [e EXCEPT !.timeout = "fired"]
  IN IF parsed.matched THEN finish(e1, parsed, "")
     ELSE finish(e1, NoUsage, "Timeout waiting for usage data")

\* The 5 s timer started by finish.
onKillSafety(e) ==
  LET e1 == [e EXCEPT !.killSafety = "fired"]
  IN IF ~e1.exited THEN settle([e1 EXCEPT !.exited = TRUE]) ELSE e1

\* Variant: an exit without a decision fails without looking at the output.
onExitNoExtraction(e) ==
  LET e1 == [e EXCEPT !.exited = TRUE, !.child = "exited"]
  IN settle(IF ~e1.decided THEN finish(e1, NoUsage, "Retrying...") ELSE e1)

\* ptyProcess.onExit
onExit(e) ==
  LET e1 == [e EXCEPT !.exited = TRUE, !.child = "exited"]
      parsed == parseUsageOutput(e1.output)
      e2 == IF ~e1.decided
            THEN (IF parsed.matched THEN finish(e1, parsed, "")
                  ELSE finish(e1, NoUsage, "Retrying..."))
            ELSE e1
  IN settle(e2)

\* A delayed write runs: the keystroke goes to the pty; the bypass and the
\* usage callbacks schedule their second keystroke.
onDelayedWrite(e, tag) ==
  LET e1 == [e EXCEPT !.delayed[tag] = @ - 1, !.written[tag] = @ + 1]
  IN IF tag = "bypass" THEN [e1 EXCEPT !.delayed["bypass-enter"] = @ + 1]
     ELSE IF tag = "usage" THEN [e1 EXCEPT !.delayed["usage-submit"] = @ + 1]
     ELSE e1

\* No fetchUsage call is being looked at.
EngineIdle ==
  eng = [ output |-> << >>, received |-> 0, usageSent |-> FALSE, lastAction |-> "",
          pendingResult |-> NoUsage, pendingError |-> "",
          decided |-> FALSE, exited |-> FALSE,
          timeout |-> "unset", killSafety |-> "unset", child |-> "none",
          killRequested |-> FALSE,
          promise |-> [state |-> "pending", value |-> NoUsage],
          settleCalls |-> 0,
          delayed |-> [t \in WriteTags |-> 0],
          written |-> [t \in WriteTags |-> 0] ]

\* fetchUsage has returned its promise: pty.spawn threw (the promise is
\* rejected and nothing else was set up) or the child runs and the 60 s timer
\* is armed.
EngineStarted ==
  \E spawned \in BOOLEAN :
    eng = [ output |-> << >>, received |-> 0, usageSent |-> FALSE, lastAction |-> "",
            pendingResult |-> NoUsage, pendingError |-> "",
            decided |-> FALSE, exited |-> FALSE,
            timeout |-> IF spawned THEN "armed" ELSE "unset",
            killSafety |-> "unset",
            child |-> IF spawned THEN "running" ELSE "none",
            killRequested |-> FALSE,
            promise |-> IF spawned THEN [state |-> "pending", value |-> NoUsage]
                        ELSE [state |-> "rejected",
                              value |-> [NoUsage EXCEPT
                                           !.sessionResetTime = "spawn failed"]],
            settleCalls |-> 0,
            delayed |-> [t \in WriteTags |-> 0],
            written |-> [t \in WriteTags |-> 0] ]

\* The child prints one of the given screens.
DataArrives(screens, maxChunks) ==
  \E data \in screens :
    /\ eng.child = "running"
    /\ eng.received < maxChunks
    /\ EngCommit(onData(eng, data))

DelayedWriteRuns ==
  \E tag \in WriteTags :
    /\ eng.delayed[tag] > 0
    /\ EngCommit(onDelayedWrite(eng, tag))

TimeoutFires ==
  /\ eng.timeout = "armed"
  /\ EngCommit(onTimeout(eng))

KillSafetyFires ==
  /\ eng.killSafety = "armed"
  /\ EngCommit(onKillSafety(eng))

ChildExits ==
  /\ eng.child = "running"
  /\ EngCommit(onExit(eng))

\* One configured active account, every trigger, every outcome, within one
\* tick of the clock.
Init == SchedInit(OneActiveAccount) /\ EngineIdle /\ ExtractIdle

Next ==
  \/ SetNotificationCallback
  \/ StartScheduler
  \/ RestartScheduler
  \/ StopScheduler
  \/ HandleSystemResume
  \/ ManualRefresh
  \/ TrayRefresh
  \/ ResetNotificationRecord
  \/ SchedulerTimerFires
  \/ RetryTimerFires
  \/ RoundAttemptSettles(Outcomes, MaxFails)
  \/ RetryAttemptSettles(Outcomes, MaxFails)

Spec == Init /\ [][Next]_vars

\* The same while time passes, in a period in which no resume / unlock signal
\* arrives.
SteadyNext ==
  \/ Tick
  \/ SetNotificationCallback
  \/ StartScheduler
  \/ RestartScheduler
  \/ StopScheduler
  \/ ManualRefresh
  \/ TrayRefresh
  \/ ResetNotificationRecord
  \/ SchedulerTimerFires
  \/ RetryTimerFires
  \/ RoundAttemptSettles(Outcomes, MaxFails)
  \/ RetryAttemptSettles(Outcomes, MaxFails)

SteadySpec == Init /\ [][SteadyNext]_vars

\* One account, every trigger; an attempt resolves with the low reading or
\* rejects, and nobody listens for alerts.
LowReading == { o \in Outcomes : ~o.ok \/ o.usage.currentSession = 42 }

ChainNext ==
  \/ StartScheduler
  \/ RestartScheduler
  \/ StopScheduler
  \/ HandleSystemResume
  \/ ManualRefresh
  \/ TrayRefresh
  \/ SchedulerTimerFires
  \/ RetryTimerFires
  \/ RoundAttemptSettles(LowReading, MaxFails)
  \/ RetryAttemptSettles(LowReading, MaxFails)

ChainSpec == Init /\ [][ChainNext]_vars

\* One account whose readings go up and down while alerts are listened for
\* and the alert record is cleared from time to time, under every trigger
\* of a running scheduler; a retry chain is at most MultiMaxFails failures
\* long.
AlertNext ==
  \/ SetNotificationCallback
  \/ ResetNotificationRecord
  \/ StartScheduler
  \/ RestartScheduler
  \/ HandleSystemResume
  \/ ManualRefresh
  \/ TrayRefresh
  \/ SchedulerTimerFires
  \/ RetryTimerFires
  \/ RoundAttemptSettles(Outcomes, MultiMaxFails)
  \/ RetryAttemptSettles(Outcomes, MultiMaxFails)

AlertSpec == Init /\ [][AlertNext]_vars

\* Two configured active accounts, within one tick of the clock; an attempt
\* resolves with the low reading (no threshold reached) or rejects, and no
\* resume / unlock signal arrives.
MultiInit == SchedInit(TwoActiveAccounts) /\ EngineIdle /\ ExtractIdle

MultiNext ==
  \/ StartScheduler
  \/ RestartScheduler
  \/ StopScheduler
  \/ ManualRefresh
  \/ TrayRefresh
  \/ SchedulerTimerFires
  \/ RetryTimerFires
  \/ RoundAttemptSettles(LowReading, MultiMaxFails)
  \/ RetryAttemptSettles(LowReading, MultiMaxFails)

MultiSpec == MultiInit /\ [][MultiNext]_vars

\* Rounds in flight that call scheduleNextFetch when they return.
ChainedRounds == { k \in 1..Len(rounds) : rounds[k].cont = "chain" }

\* One account while the scheduler is started, restarted and resumed but
\* never stopped, and the user changes the refresh interval.
CadenceNext ==
  \/ StartScheduler
  \/ RestartScheduler
  \/ HandleSystemResume
  \/ SetRefreshInterval
  \/ ManualRefresh
  \/ TrayRefresh
  \/ SchedulerTimerFires
  \/ RetryTimerFires
  \/ RoundAttemptSettles(LowReading, MultiMaxFails)
  \/ RetryAttemptSettles(LowReading, MultiMaxFails)

CadenceSpec == Init /\ [][CadenceNext]_vars

\* Two active accounts while the scheduler runs undisturbed: rounds are
\* started by the scheduler, its timers and the tray; the retry timers armed
\* by failures stay pending.  The scheduler is started again only while that
\* leaves room for the next-round timer a returning round arms.  An attempt
\* a round awaits settles sooner or later, because the engine settles every
\* attempt (60 s timer, then 5 s safety timer), an unresponsive child
\* included.
RoundLiveNext ==
  \/ (cadenceTimers + Cardinality(ChainedRounds) < MaxCadence /\ StartScheduler)
  \/ TrayRefresh
  \/ SchedulerTimerFires
  \/ RoundAttemptSettles(LowReading, MultiMaxFails)

RoundLiveSpec ==
  /\ MultiInit /\ [][RoundLiveNext]_vars
  /\ WF_vars(RoundAttemptSettles(LowReading, MultiMaxFails))

\* Any account list of one or two accounts, active or not, under every
\* trigger of a round; the retry timers armed by failures stay pending.
AccountLists ==
  { l \in UNION { [1..n -> [id : AccountIds, isActive : BOOLEAN]] : n \in 1..2 } :
      \A i, j \in 1..Len(l) : i # j => l[i].id # l[j].id }

RoundInit ==
  /\ \E accounts \in AccountLists : SchedInit(accounts)
  /\ EngineIdle /\ ExtractIdle

RoundNext ==
  \/ StartScheduler
  \/ RestartScheduler
  \/ StopScheduler
  \/ ManualRefresh
  \/ TrayRefresh
  \/ SchedulerTimerFires
  \/ RoundAttemptSettles(LowReading, MultiMaxFails)

RoundSpec == RoundInit /\ [][RoundNext]_vars

\* Two configured active accounts that the user may remove.
StoreNext ==
  \/ StartScheduler
  \/ RemoveAccount
  \/ SchedulerTimerFires
  \/ RetryTimerFires
  \/ RoundAttemptSettles(LowReading, MultiMaxFails)
  \/ RetryAttemptSettles(LowReading, MultiMaxFails)

StoreSpec == MultiInit /\ [][StoreNext]_vars

\* One account whose window is created, and closed for good at any moment,
\* while rounds are started by the scheduler, its timers and the user.  As at
\* the start of the app, the window is created before the scheduler is
\* started and before the user can ask for anything.
PushNext ==
  \/ SetMainWindow
  \/ WindowDestroyed
  \/ (mainWindow # "null" /\ StartScheduler)
  \/ (mainWindow # "null" /\ ManualRefresh)
  \/ (mainWindow # "null" /\ TrayRefresh)
  \/ SchedulerTimerFires
  \/ RetryTimerFires
  \/ RoundAttemptSettles(LowReading, MultiMaxFails)
  \/ RetryAttemptSettles(LowReading, MultiMaxFails)

PushSpec == Init /\ [][PushNext]_vars

\* Two active accounts whose readings cross the thresholds of one dimension
\* at a time or fail.  As at the start of the app, the alert callback is
\* registered, then the scheduler is started once; the next-round timer
\* starts the later rounds.
FrameReadings ==
  { [ok |-> TRUE,
     usage |-> [currentSession |-> 90, sessionResetTime |-> "7pm (Zone)",
                weeklyUsage |-> 7, weeklyResetTime |-> "Mar 4 at 8pm (Zone)"]],
    [ok |-> TRUE,
     usage |-> [currentSession |-> 42, sessionResetTime |-> "2am (Zone)",
                weeklyUsage |-> 80, weeklyResetTime |-> "Mar 11 at 8pm (Zone)"]],
    [ok |-> FALSE,
     usage |-> [currentSession |-> 0, sessionResetTime |-> "",
                weeklyUsage |-> 0, weeklyResetTime |-> ""]] }

FrameNext ==
  \/ SetNotificationCallback
  \/ (/\ notificationCallback /\ schedulerTimeoutId = "null" /\ rounds = << >>
      /\ StartScheduler)
  \/ SchedulerTimerFires
  \/ RetryTimerFires
  \/ RoundAttemptSettles(FrameReadings, MultiMaxFails)
  \/ RetryAttemptSettles(FrameReadings, MultiMaxFails)

FrameSpec == MultiInit /\ [][FrameNext]_vars

\* One account while the scheduler is started and stopped at any moment and
\* the user asks for nothing.
StopNext ==
  \/ StartScheduler
  \/ StopScheduler
  \/ SchedulerTimerFires
  \/ RetryTimerFires
  \/ RoundAttemptSettles(LowReading, MultiMaxFails)
  \/ RetryAttemptSettles(LowReading, MultiMaxFails)

StopSpec == Init /\ [][StopNext]_vars

\* One engine session: the child prints screens in any order, exits at any
\* moment or never, and the timers fire.
Screens ==
  { ThemeChunk, LoginMethodChunk, LoginContinueChunk, SecurityChunk,
    TerminalSetupChunk, TrustChunk, BypassChunk, LoggedChunk, MainChunk,
    MenuChunk, SessionChunk, WeekChunk }

EngineInit == SchedInit(OneActiveAccount) /\ EngineStarted /\ ExtractIdle

EngineNext ==
  \/ DataArrives(Screens, MaxChunks)
  \/ DelayedWriteRuns
  \/ TimeoutFires
  \/ KillSafetyFires
  \/ ChildExits

EngineSpec == EngineInit /\ [][EngineNext]_vars

\* The same with a shorter session and fewer screens; timers that are armed
\* fire unless they are cleared first.
LiveScreens == { TrustChunk, MainChunk, MenuChunk, SessionChunk, WeekChunk }

EngineLiveNext ==
  \/ DataArrives(LiveScreens, LiveMaxChunks)
  \/ DelayedWriteRuns
  \/ TimeoutFires
  \/ KillSafetyFires
  \/ ChildExits

EngineLiveSpec ==
  /\ EngineInit /\ [][EngineLiveNext]_vars
  /\ WF_vars(TimeoutFires) /\ WF_vars(KillSafetyFires)

\* A scripted session: some of the setup prompts in the order the CLI shows
\* them, then the main prompt, the echo of the command, the two usage blocks,
\* and the exit of the child.
SetupOrder ==
  << ThemeChunk, LoginMethodChunk, LoginContinueChunk, SecurityChunk,
     TerminalSetupChunk, TrustChunk, BypassChunk >>

SetupTags ==
  << "theme", "login-method", "login-continue", "security", "terminal-setup",
     "trust", "bypass" >>

\* The elements of seq at the indices S, in order.
SubsequenceAt(seq, S) ==
  [ i \in 1..Cardinality(S) |->
      seq[CHOOSE j \in S : Cardinality({ k \in S : k <= j }) = i] ]

\* The command is echoed alone or together with the autocomplete entry.
ScriptTails ==
  { << MainChunk, EchoChunk, SessionChunk, WeekChunk >>,
    << MainChunk, MenuChunk, SessionChunk, WeekChunk >> }

Scripts ==
  { SubsequenceAt(SetupOrder, S) \o tail :
      S \in { T \in SUBSET (1..Len(SetupOrder)) :
                Cardinality(T) <= MaxScriptPrompts },
      tail \in ScriptTails }

ScriptScreens == Screens \cup { EchoChunk }

IsPrefix(p, q) == Len(p) <= Len(q) /\ SubSeq(q, 1, Len(p)) = p

\* The child prints the next chunk of a script.
ScriptChunkArrives ==
  \E data \in ScriptScreens :
    /\ eng.child = "running"
    /\ \E sc \in Scripts : IsPrefix(Append(eng.output, data), sc)
    /\ EngCommit(onData(eng, data))

\* The child exits at the end of the script.
ScriptEnds ==
  /\ eng.child = "running"
  /\ eng.output \in Scripts
  /\ EngCommit(onExit(eng))

ScriptNext ==
  \/ ScriptChunkArrives
  \/ DelayedWriteRuns
  \/ ScriptEnds

ScriptSpec == EngineInit /\ [][ScriptNext]_vars

\* One call of the extractor on any text made of at most MaxBlocks pieces.
ExtractInit == SchedInit(OneActiveAccount) /\ EngineIdle /\ ExtractCalled

ExtractNext == ExtractReturns

ExtractSpec == ExtractInit /\ [][ExtractNext]_vars

\* ================================================================= claims
\* The figures of a snapshot: everything but the retrying flag.
Figures(d) ==
  << d.currentSession, d.sessionResetTime, d.weeklyUsage, d.weeklyResetTime,
     d.lastUpdated >>

\* Engine attempts in flight: one per executing round, one per retry callback
\* awaiting fetchUsage.
RetryAttempts == retryRuns["a1"] + retryRuns["a2"]
AttemptsInFlight == Len(rounds) + RetryAttempts

\* C1: after a failed attempt (round or isolated retry) the account's
\* snapshot has the session/weekly percentages, the reset times and the
\* last-updated timestamp it had before the attempt.
C1_FailureKeepsFigures ==
  \A a \in AccountIds :
    (lastEvent[a] = "failure" /\ a \in DOMAIN prevSnap)
      => Figures(usageCache[a]) = Figures(prevSnap[a])

\* C2: at most one round (fetchAllUsage pass) is executing at any time,
\* whatever the interleaving of timer, refresh, restart and resume signals.
C2_AtMostOneRound == Len(rounds) <= 1

\* C3: at most one engine attempt (fetchUsage call) is in flight at any time;
\* attempts of a round and attempts of retry timers never overlap.
C3_AtMostOneAttempt == AttemptsInFlight <= 1

\* C6: since the last resetNotificationRecord of an account, every threshold
\* has been alerted at most once per dimension, whatever the readings were.
C6_AlertedAtMostOnce ==
  \A a \in AccountIds : \A k \in DOMAIN alertCount[a] : alertCount[a][k] <= 1

\* A reading at or above a threshold arrived and its alert was withheld
\* because the threshold had been alerted before.
C6_Witness ==
  /\ <<"a1", "session", 80>> \in suppressed
  /\ alertCount["a1"][<<"session", 80>>] = 1
  /\ usageCache["a1"].currentSession >= 80

\* C7: the delay armed after the N-th consecutive failure of an account is
\* min(5000 * 2^(N-1), 180000) ms.
C7_BackoffSequence ==
  \A a \in AccountIds :
    failCount[a] >= 1
      => lastDelay[a] = Min(INITIAL_BACKOFF_MS * 2 ^ (failCount[a] - 1),
                            MAX_BACKOFF_MS)

\* The eighth consecutive failure armed the capped delay a second time.
C7_Witness ==
  /\ failCount["a1"] = 8
  /\ lastDelay["a1"] = 180000
  /\ "a1" \in DOMAIN retryTimers /\ retryTimers["a1"] = 180000

\* C8: after a successful attempt the account has no backoff entry, and a
\* failure that directly follows a success arms the initial delay.
C8_SuccessResetsBackoff ==
  \A a \in AccountIds :
    /\ lastEvent[a] = "success" => a \notin DOMAIN backoffState
    /\ (/\ lastEvent[a] = "failure" /\ failCount[a] >= 1
        /\ a \in DOMAIN prevSnap /\ ~prevSnap[a].retrying)
         => lastDelay[a] = INITIAL_BACKOFF_MS

\* A failure right after a success (the snapshot before it was fresh) has
\* armed a retry with the initial delay.
C8_Witness ==
  /\ lastEvent["a1"] = "failure" /\ failCount["a1"] = 1
  /\ "a1" \in DOMAIN prevSnap /\ ~prevSnap["a1"].retrying
  /\ "a1" \in DOMAIN retryTimers /\ retryTimers["a1"] = INITIAL_BACKOFF_MS

\* C4: in one engine attempt the resolve / reject step is performed at most
\* once, whatever the order of decision, timeout and process exit.
C4_SettleStepOnce == eng.settleCalls <= 1

\* C5: every engine attempt eventually resolves or rejects its caller,
\* whatever the child does.
C5_EventuallySettled == <>(eng.promise.state # "pending")

\* The child printed nothing usable and never exited: the 60 s timer latched
\* the failure and the 5 s timer settled the caller.
C5_Witness ==
  /\ eng.timeout = "fired" /\ eng.killSafety = "fired" /\ eng.child = "running"
  /\ eng.killRequested /\ eng.promise.state = "rejected"

\* C9: within one session each prompt signature triggers its keystroke at
\* most once.
C9_SignatureFiresOnce ==
  \A t \in PromptTags : eng.delayed[t] + eng.written[t] <= 1

\* Chunks of the session that show a main-prompt marker.
MainPromptChunks ==
  { i \in 1..Len(eng.output) :
      IncludesAny(stripAnsi(eng.output[i]),
                  {"Welcomeback", "Welcome back", "bypasspermissionson",
                   "bypass permissions on"}) }

\* C10: within one session '/usage' and its submission keystroke are written
\* at most once each, the keystroke after the command, and only after a
\* main-prompt marker was seen in the buffer.
C10_UsageCommandOnce ==
  /\ eng.delayed["usage"] + eng.written["usage"] <= 1
  /\ eng.delayed["usage-submit"] + eng.written["usage-submit"] <= eng.written["usage"]
  /\ eng.delayed["usage"] + eng.written["usage"] >= 1 => MainPromptChunks # {}
  /\ eng.usageSent <=> eng.delayed["usage"] + eng.written["usage"] = 1

\* The command and its keystroke were written once although the marker was
\* in the buffer during several later chunks.
C10_Witness ==
  /\ eng.written["usage"] = 1 /\ eng.written["usage-submit"] = 1
  /\ Cardinality(MainPromptChunks) >= 2

\* Keystrokes of a tag sent to the child or scheduled to be sent.
Sent(tag) == eng.delayed[tag] + eng.written[tag]

\* The setup prompts whose screen is in the output of the session.
Shown == { i \in 1..Len(SetupOrder) :
             \E j \in 1..Len(eng.output) : eng.output[j] = SetupOrder[i] }

\* C11: at the end of a scripted session (setup prompts one after another,
\* main prompt, command echo, two usage figures, exit) every prompt shown got
\* exactly one keystroke, no other prompt got any, the usage command was sent
\* once, and the caller was resolved with success by a single settle step.
C11_ScriptedSession ==
  (eng.child = "exited" /\ eng.output \in Scripts) =>
    /\ \A i \in 1..Len(SetupOrder) :
         Sent(SetupTags[i]) = IF i \in Shown THEN 1 ELSE 0
    /\ Sent("usage-enter") =
         IF \E j \in 1..Len(eng.output) : eng.output[j] = MenuChunk THEN 1 ELSE 0
    /\ Sent("usage") = 1
    /\ eng.promise.state = "resolved"
    /\ eng.settleCalls = 1

\* C12: when the resume / unlock signal is handled while isFetching is true
\* and a retry timer is pending, the handler leaves no retry timer and no
\* backoff entry, and the stale flag does not keep it from starting a new
\* round at once: the round is added to those in flight and holds the flag.
C12_ResumeRecovers ==
  [][ (note'.op = "resume" /\ note'.flag /\ note'.timers # {}) =>
        /\ retryTimers' = EmptyMap
        /\ backoffState' = EmptyMap
        /\ Len(rounds') = Len(rounds) + 1
        /\ SubSeq(rounds', 1, Len(rounds)) = rounds
        /\ rounds'[Len(rounds')].idx = NextActive(settings, 0)
        /\ rounds'[Len(rounds')].cont = "chain"
        /\ isFetching' ]_vars

\* The signal arrived during a round while a1's retry timer was pending; the
\* timer is gone and a second round is in flight.
C12_Witness ==
  /\ note.op = "resume" /\ note.flag /\ "a1" \in note.timers
  /\ retryTimers = EmptyMap /\ backoffState = EmptyMap
  /\ Len(rounds) = 2 /\ isFetching

\* C13: at most one cadence exists: the pending next-round timers and the
\* rounds that will arm one when they return number at most one.
C13_SingleCadence == cadenceTimers + Cardinality(ChainedRounds) <= 1

\* The ids of the accounts in settings.json.
KnownAccounts == { settings[i].id : i \in 1..Len(settings) }

\* C14: the snapshot store holds snapshots of known accounts only.
C14_SnapshotsOfKnownAccounts == DOMAIN usageCache \subseteq KnownAccounts

\* C15 as stated: every manual refresh cancels the pending retry timers,
\* clears the backoff state and starts one round.
C15_RefreshRunsRound ==
  [][ note'.op = "refresh" =>
        /\ retryTimers' = EmptyMap /\ backoffState' = EmptyMap
        /\ Len(rounds') = Len(rounds) + 1 ]_vars

\* C15, amended: every manual refresh cancels the pending retry timers and
\* clears the backoff state; it starts one round over the active accounts,
\* which runs without rescheduling the cadence, unless isFetching is set, in
\* which case it starts no round and the rounds in flight go on.
C15_RefreshCancelsThenRuns ==
  [][ note'.op = "refresh" =>
        /\ retryTimers' = EmptyMap /\ backoffState' = EmptyMap
        /\ IF isFetching THEN rounds' = rounds
           ELSE /\ Len(rounds') = Len(rounds) + 1
                /\ SubSeq(rounds', 1, Len(rounds)) = rounds
                /\ rounds'[Len(rounds')].idx = NextActive(settings, 0)
                /\ rounds'[Len(rounds')].cont = "none"
                /\ isFetching' ]_vars

\* A manual refresh found a1's retry timer pending and no round in flight:
\* the timer is gone and the round runs.
C15_Witness ==
  /\ note.op = "refresh" /\ ~note.flag /\ "a1" \in note.timers
  /\ retryTimers = EmptyMap /\ backoffState = EmptyMap
  /\ Len(rounds) = 1 /\ rounds[1].cont = "none" /\ isFetching

\* The sanitized text of the extractor's input.
Sanitized == stripAnsi(Flatten(extraction.input))

IsLabel(t) == t.k = "text" /\ t.v \in {"Current session", "Current week"}

\* Positions of the block of a label: from the first occurrence of the label
\* up to the next label or the end of the text.
Block(label) ==
  LET starts == { i \in 1..Len(Sanitized) :
                    Sanitized[i].k = "text" /\ Sanitized[i].v = label }
  IN IF starts = {} THEN {}
     ELSE { i \in 1..Len(Sanitized) :
              /\ i >= Least(starts)
              /\ \A j \in (Least(starts) + 1)..i : ~IsLabel(Sanitized[j]) }

\* The figure and the reset time printed in the block of a label; 0 and ""
\* stand for a value the block does not show.
OwnFigure(label) ==
  LET figs == { i \in Block(label) : Sanitized[i].k = "pct" }
  IN IF figs = {} THEN 0 ELSE Sanitized[Least(figs)].n

OwnReset(label) ==
  LET rs == { i \in Block(label) : Sanitized[i].k \in {"clock", "date"} }
  IN IF rs = {} THEN "" ELSE Sanitized[Least(rs)].v

\* C16: each of the four fields the extractor returns is the value of its
\* own block: 42, 7, "2am (Zone)" and "Mar 4 at 8pm (Zone)" for the two blocks
\* of the example.
C16_FieldsOfOwnBlock ==
  (extraction.returned /\ extraction.result.matched) =>
    /\ extraction.result.currentSession = OwnFigure("Current session")
    /\ extraction.result.sessionResetTime = OwnReset("Current session")
    /\ extraction.result.weeklyUsage = OwnFigure("Current week")
    /\ extraction.result.weeklyResetTime = OwnReset("Current week")

\* "<label> ... N% used" matches: a figure follows an occurrence of the label.
PatternMatches(label) ==
  \E i, j \in 1..Len(Sanitized) :
    /\ i < j
    /\ Sanitized[i].k = "text" /\ Sanitized[i].v = label
    /\ Sanitized[j].k = "pct"

\* C17: the extractor returns a record exactly when the session pattern or
\* the weekly pattern matches the sanitized input, and null otherwise.
C17_NullIffNoPattern ==
  extraction.returned =>
    (extraction.result.matched <=>
       (PatternMatches("Current session") \/ PatternMatches("Current week")))

\* Null was returned for a text that shows a prompt, a reset time and a
\* figure but neither pattern.
C17_Witness ==
  /\ extraction.returned /\ ~extraction.result.matched
  /\ \E i \in 1..Len(Sanitized) : Sanitized[i].k = "clock"
  /\ \E i \in 1..Len(Sanitized) : Sanitized[i].k = "pct"
  /\ IncludesAny(Sanitized, {"Welcome back"})

\* The ids of the active accounts of a list, in the order of the list.
IsActive(a) == a.isActive
ActiveIds(accounts) ==
  LET act == SelectSeq(accounts, IsActive)
  IN [i \in 1..Len(act) |-> act[i].id]

\* C18: a round in flight awaits the attempt of an active account and has
\* attempted, one at a time, exactly the active accounts that precede it in
\* the list, in list order; a round that returns has attempted every active
\* account once, in list order, whatever the outcomes were, and has released
\* isFetching.
C18_RoundIsSequential ==
  /\ \A k \in 1..Len(rounds) :
       /\ rounds[k].accounts[rounds[k].idx].isActive
       /\ rounds[k].done =
            ActiveIds(SubSeq(rounds[k].accounts, 1, rounds[k].idx - 1))
  /\ note.op = "round-end" =>
       /\ note.done = ActiveIds(note.accounts)
       /\ ~isFetching

\* A round over two active accounts returned although the attempt of the
\* first account had failed.
C18_Witness ==
  /\ note.op = "round-end" /\ Len(note.done) = 2
  /\ note.done = ActiveIds(settings)
  /\ lastEvent[note.done[1]] = "failure" /\ lastEvent[note.done[2]] = "success"
  /\ note.done[1] \in DOMAIN retryTimers

\* C19: after a successful attempt of an account (round or retry) its
\* snapshot has a last-updated time and is not marked retrying, it has no
\* backoff entry, and no retry timer is pending for it.
C19_SuccessStopsChain ==
  \A a \in AccountIds :
    lastEvent[a] = "success" =>
      /\ a \in DOMAIN usageCache
      /\ usageCache[a].lastUpdated # Undefined /\ ~usageCache[a].retrying
      /\ a \notin DOMAIN backoffState
      /\ a \notin DOMAIN retryTimers

\* C20: a step in which an attempt of an account fails (round or retry)
\* leaves the snapshot marked retrying and a retry timer armed for that
\* account with its backoff delay; the timers of the other accounts are as
\* they were.
C20_FailureArmsRetry ==
  [][ \A a \in AccountIds :
        (lastEvent'[a] = "failure" /\ failCount'[a] = failCount[a] + 1) =>
          /\ usageCache'[a].retrying
          /\ a \in DOMAIN retryTimers'
          /\ retryTimers'[a] = IF a \in DOMAIN backoffState
                               THEN backoffState[a] ELSE INITIAL_BACKOFF_MS
          /\ backoffState'[a] = Min(2 * retryTimers'[a], MAX_BACKOFF_MS)
          /\ \A b \in AccountIds \ {a} :
               /\ b \in DOMAIN retryTimers' <=> b \in DOMAIN retryTimers
               /\ b \in DOMAIN retryTimers => retryTimers'[b] = retryTimers[b]
    ]_vars

\* An isolated retry failed after a failed round and armed the next retry
\* with the doubled delay, while the periodic timer is pending.
C20_Witness ==
  /\ lastEvent["a1"] = "failure" /\ failCount["a1"] = 2
  /\ usageCache["a1"].retrying
  /\ "a1" \in DOMAIN retryTimers /\ retryTimers["a1"] = 2 * INITIAL_BACKOFF_MS
  /\ rounds = << >> /\ schedulerTimeoutId = "pending"

\* C21: when the account list changes (remove-account, then restartScheduler)
\* and an active account remains, the pending next-round timer is cancelled
\* and a round over the new account list starts in the same step, before any
\* next-round timer is armed, also when a round is in flight.
C21_RestartRunsNewRound ==
  [][ (note'.op = "remove-account" /\ NextActive(settings', 0) # 0) =>
        /\ cadenceTimers' = 0
        /\ Len(rounds') = Len(rounds) + 1
        /\ rounds'[Len(rounds')].accounts = settings'
        /\ rounds'[Len(rounds')].cont = "chain" ]_vars

\* C22: once the engine has decided, it stays decided; no later step (chunk,
\* 60 s timer, 5 s timer, exit, delayed write) changes the pending result or
\* the pending error, appends to the buffer, fires a prompt rule, schedules
\* the usage command or sends the interrupt keystroke.
C22_DecisionLatchedOnce ==
  [][ eng.decided =>
        /\ eng'.decided
        /\ eng'.pendingResult = eng.pendingResult
        /\ eng'.pendingError = eng.pendingError
        /\ eng'.output = eng.output
        /\ eng'.lastAction = eng.lastAction
        /\ eng'.usageSent = eng.usageSent
        /\ \A t \in PromptTags \cup {"usage"} : eng'.delayed[t] <= eng.delayed[t]
        /\ eng'.written["interrupt"] = eng.written["interrupt"] ]_vars

\* The 60 s timer decided on a partial reading; a chunk that arrived later
\* was dropped, and the exit of the child settled the caller with the result
\* latched by the timer.
C22_Witness ==
  /\ eng.decided /\ eng.timeout = "fired" /\ eng.child = "exited"
  /\ eng.received > Len(eng.output)
  /\ eng.pendingResult.matched /\ eng.pendingResult = parseUsageOutput(eng.output)
  /\ eng.promise = [state |-> "resolved", value |-> eng.pendingResult]

OutputHasFigure ==
  LET cleaned == stripAnsi(Flatten(eng.output))
  IN \E i, j \in 1..Len(cleaned) :
       /\ i < j /\ IsLabel(cleaned[i]) /\ cleaned[j].k = "pct"

\* C24: when the 60 s timer fires before any decision, the attempt is decided
\* in that step: as success with the extraction of the accumulated output if
\* at least one percentage pattern matches it, otherwise as failure with the
\* timeout error; when it fires after a decision, nothing but the timer
\* changes.
C24_TimeoutDecides ==
  [][ (eng.timeout = "armed" /\ eng'.timeout = "fired") =>
        IF eng.decided THEN eng' = [eng EXCEPT !.timeout = "fired"]
        ELSE /\ eng'.decided /\ eng'.killRequested
             /\ eng'.output = eng.output
             /\ IF OutputHasFigure
                THEN /\ eng'.pendingResult = parseUsageOutput(eng.output)
                     /\ eng'.pendingResult.matched
                     /\ eng'.pendingError = ""
                ELSE /\ eng'.pendingResult = NoUsage
                     /\ eng'.pendingError = "Timeout waiting for usage data" ]_vars

\* The timer fired when only the session figure had been printed: the
\* attempt is decided as success with that figure and no weekly figure.
C24_Witness ==
  /\ eng.timeout = "fired" /\ eng.decided /\ eng.written["interrupt"] = 0
  /\ eng.pendingResult.matched /\ eng.pendingResult.currentSession = 42
  /\ eng.pendingResult.weeklyUsage = 0 /\ eng.pendingError = ""
  /\ eng.child = "running"

\* C25: when the child exits before any decision, the exit handler decides
\* and settles in that step: the caller is resolved with the extraction of
\* the accumulated output if at least one percentage pattern matches it, and
\* rejected otherwise; no timer of the session is left armed.
C25_ExitDecidesAndSettles ==
  [][ (eng.child = "running" /\ eng'.child = "exited" /\ ~eng.decided) =>
        /\ eng'.decided /\ eng'.exited
        /\ eng'.output = eng.output
        /\ IF OutputHasFigure
           THEN eng'.promise =
                  [state |-> "resolved", value |-> parseUsageOutput(eng.output)]
           ELSE eng'.promise =
                  [state |-> "rejected",
                   value |-> [NoUsage EXCEPT !.sessionResetTime = "Retrying..."]]
        /\ eng'.timeout = "cleared" /\ eng'.killSafety = "cleared" ]_vars

\* The child exited after printing the weekly block only, before the usage
\* command was even sent: the caller was resolved at once with that figure.
C25_Witness ==
  /\ eng.child = "exited" /\ ~eng.usageSent /\ eng.timeout = "cleared"
  /\ eng.killSafety = "cleared"
  /\ eng.promise.state = "resolved" /\ eng.promise.value.weeklyUsage = 7
  /\ eng.promise.value.currentSession = 0

\* C26: a chunk that is processed after the usage command was written and
\* before a decision, and that leaves at least two "N% used" figures in the
\* sanitized buffer with a successful extraction, makes the engine send the
\* interrupt keystroke and latch success in that step, whatever setup-prompt
\* text is still in the buffer.
C26_FiguresDecideOnTheirChunk ==
  [][ (/\ eng'.received = eng.received + 1
       /\ ~eng.decided /\ eng.written["usage"] >= 1
       /\ UsedMatches(stripAnsi(Flatten(eng'.output))) >= 2
       /\ parseUsageOutput(eng'.output).matched) =>
        /\ eng'.decided
        /\ eng'.pendingResult = parseUsageOutput(eng'.output)
        /\ eng'.written["interrupt"] = eng.written["interrupt"] + 1 ]_vars

\* C27: a chunk that is not itself a setup prompt, processed before a
\* decision while the usage command is not scheduled yet, every keystroke
\* scheduled so far has been written, and a main-prompt marker is in the
\* sanitized buffer, makes the engine schedule the usage command in that
\* step, whatever answered setup-prompt text is still in the buffer.
C27_MainPromptSendsUsage ==
  [][ (/\ eng'.received = eng.received + 1
       /\ ~eng.decided /\ ~eng.usageSent
       /\ \A t \in PromptTags : eng.delayed[t] = 0
       /\ eng'.output # eng.output
       /\ \A i \in 1..Len(SetupOrder) : eng'.output[Len(eng'.output)] # SetupOrder[i]
       /\ IncludesAny(stripAnsi(Flatten(eng'.output)),
                      {"Welcomeback", "Welcome back", "bypasspermissionson",
                       "bypass permissions on"})) =>
        /\ eng'.usageSent
        /\ eng'.delayed["usage"] = eng.delayed["usage"] + 1 ]_vars

\* C28: every round that starts returns and releases isFetching, also when
\* attempts of its accounts fail.
C28_RoundCompletes ==
  (rounds # << >>) ~> (note.op = "round-end" /\ ~isFetching)

\* A round returned after the attempt of its first account had failed: the
\* account is marked retrying with its previous figures, the second account
\* was attempted after it, and the flag is released.
C28_Witness ==
  /\ note.op = "round-end" /\ note.done = << "a1", "a2" >> /\ ~isFetching
  /\ lastEvent["a1"] = "failure" /\ usageCache["a1"].retrying
  /\ rounds = << >>

\* The periodic cadence exists: a next-round timer is pending or a round in
\* flight will arm one when it returns.
CadenceAlive == cadenceTimers + Cardinality(ChainedRounds) >= 1

\* C29: while the scheduler is not stopped, a (re)start brings the cadence
\* into existence and no step ends it, whatever attempts fail; when a round
\* of the cadence returns, the next-round timer is armed in that step with
\* the refresh interval that settings.json holds at that moment.
C29_CadenceGoesOn ==
  [][ /\ note'.op = "set-refresh-interval" => CadenceAlive'
      /\ CadenceAlive => CadenceAlive'
      /\ \A k \in ChainedRounds :
           (note'.op = "round-end" /\ rounds' = RemoveAt(rounds, k)) =>
             /\ cadenceTimers' = cadenceTimers + 1
             /\ schedulerTimeoutId' = "pending"
             /\ armedDelay' = refreshInterval ]_vars

\* The interval was changed during the first round, whose only attempt then
\* failed: the round has armed the next one with the new interval, next to
\* the retry timer of the account.
C29_Witness ==
  /\ note.op = "round-end" /\ lastEvent["a1"] = "failure"
  /\ refreshInterval = 60000 /\ armedDelay = 60000
  /\ cadenceTimers >= 1 /\ "a1" \in DOMAIN retryTimers
  /\ rounds = << >>

\* An attempt of the account resolved in this step: the round that awaited
\* it moved on, or its retry callback finished.
SuccessStep(a) ==
  /\ lastEvent'[a] = "success"
  /\ \/ retryRuns'[a] < retryRuns[a]
     \/ \E k \in 1..Len(rounds) :
          /\ rounds[k].accounts[rounds[k].idx].id = a
          /\ \/ rounds' = RemoveAt(rounds, k)
             \/ /\ Len(rounds') = Len(rounds)
                /\ rounds'[k].idx # rounds[k].idx

\* The thresholds a reading has reached that the record does not hold, in
\* ascending order.
Due(record, value) ==
  SelectSeq(ALERT_THRESHOLDS, LAMBDA t : value >= t /\ ~Includes(record, t))

\* C30: in a step in which an attempt of an account resolves while a callback
\* is registered, the alerts emitted are, for the session reading and then
\* for the weekly reading, exactly the thresholds the reading has reached and
\* the record did not hold, each once and in ascending order; exactly those
\* are appended to the record, so nothing above the reading is alerted or
\* recorded.
C30_DueThresholdsAlerted ==
  [][ \A a \in AccountIds :
        (SuccessStep(a) /\ notificationCallback) =>
          LET record == IF a \in DOMAIN notifiedThresholds
                        THEN notifiedThresholds[a]
                        ELSE [session |-> << >>, weekly |-> << >>]
              dueS == Due(record.session, usageCache'[a].currentSession)
              dueW == Due(record.weekly, usageCache'[a].weeklyUsage)
          IN /\ alerts' = [i \in 1..Len(dueS) |-> <<a, "session", dueS[i]>>]
                            \o [i \in 1..Len(dueW) |-> <<a, "weekly", dueW[i]>>]
             /\ notifiedThresholds'[a] =
                  [session |-> record.session \o dueS,
                   weekly |-> record.weekly \o dueW] ]_vars

\* The first reading of 85 % / 100 % with a callback registered: 80 was
\* alerted for the session, 80, 90 and 100 for the week, in that order, and
\* 90 and 100 are not recorded for the session.
C30_Witness ==
  /\ notificationCallback /\ lastEvent["a1"] = "success"
  /\ usageCache["a1"].currentSession = 85 /\ usageCache["a1"].weeklyUsage = 100
  /\ alerts = << <<"a1", "session", 80>>, <<"a1", "weekly", 80>>,
                 <<"a1", "weekly", 90>>, <<"a1", "weekly", 100>> >>
  /\ notifiedThresholds["a1"] = [session |-> <<80>>, weekly |-> <<80, 90, 100>>]

\* An attempt of the account settled in this step, resolved or rejected: the
\* round that awaited it moved on, or its retry callback finished.
AttemptStep(a) ==
  \/ retryRuns'[a] < retryRuns[a]
  \/ \E k \in 1..Len(rounds) :
       /\ rounds[k].accounts[rounds[k].idx].id = a
       /\ \/ rounds' = RemoveAt(rounds, k)
          \/ /\ Len(rounds') = Len(rounds)
             /\ rounds'[k].idx # rounds[k].idx

\* The entry a map holds for a key, if it holds one.
Entry(m, k) == IF k \in DOMAIN m THEN << m[k] >> ELSE << >>

\* The thresholds an account's record holds for one dimension.
Fired(record, a, dim) ==
  IF a \notin DOMAIN record THEN << >>
  ELSE IF dim = "session" THEN record[a].session ELSE record[a].weekly

\* The alerts of a step that are for one account and one dimension.
AlertsOf(al, a, dim) == SelectSeq(al, LAMBDA x : x[1] = a /\ x[2] = dim)

\* C31: a step in which an attempt of account A settles (success or failure,
\* round or isolated retry) leaves the snapshot, the backoff entry, the
\* pending retry timer and the fired-threshold record of every other account
\* as they were; and for A itself, a step that alerts for one dimension only
\* leaves the fired thresholds of the other dimension as they were.
C31_OtherAccountsUntouched ==
  [][ \A a \in AccountIds :
        AttemptStep(a) =>
          /\ \A b \in AccountIds \ {a} :
               /\ Entry(usageCache', b) = Entry(usageCache, b)
               /\ Entry(backoffState', b) = Entry(backoffState, b)
               /\ Entry(retryTimers', b) = Entry(retryTimers, b)
               /\ retryPending'[b] = retryPending[b]
               /\ Entry(notifiedThresholds', b) = Entry(notifiedThresholds, b)
               /\ AlertsOf(alerts', b, "session") = << >>
               /\ AlertsOf(alerts', b, "weekly") = << >>
          /\ AlertsOf(alerts', a, "weekly") = << >> =>
               Fired(notifiedThresholds', a, "weekly")
                 = Fired(notifiedThresholds, a, "weekly")
          /\ AlertsOf(alerts', a, "session") = << >> =>
               Fired(notifiedThresholds', a, "session")
                 = Fired(notifiedThresholds, a, "session") ]_vars

\* In one round the first account was alerted for the week and then failed;
\* the attempt of the second account then alerted for the session only: the
\* first account still has its snapshot, its record, its backoff entry and
\* its retry timer, and the second has no weekly threshold recorded.
C31_Witness ==
  /\ note.op = "round-end" /\ note.done = << "a1", "a2" >>
  /\ alerts = << <<"a2", "session", 80>>, <<"a2", "session", 90>> >>
  /\ notifiedThresholds["a2"] = [session |-> <<80, 90>>, weekly |-> << >>]
  /\ "a1" \in DOMAIN notifiedThresholds
  /\ notifiedThresholds["a1"] = [session |-> << >>, weekly |-> <<80>>]
  /\ usageCache["a1"].retrying /\ usageCache["a1"].weeklyUsage = 80
  /\ "a1" \in DOMAIN retryTimers /\ retryTimers["a1"] = INITIAL_BACKOFF_MS
  /\ backoffState["a1"] = 2 * INITIAL_BACKOFF_MS

\* C32: a step that calls fetchAllUsage while isFetching is held (the tray
\* item, the refresh handler, startScheduler, the next-round callback: any
\* step in which no attempt settles and no retry timer fires) starts no
\* round and no attempt, writes no snapshot, arms no retry timer, adds no
\* backoff entry, sends nothing to the window and leaves the flag held and
\* the round in flight as it was; the refresh handler, which does nothing
\* after the call, also leaves the next-round timer as it was.
C32_HeldFlagSkipsTheCall ==
  [][ (/\ isFetching
       /\ \A a \in AccountIds : ~AttemptStep(a) /\ retryRuns'[a] = retryRuns[a]) =>
        /\ rounds' = rounds
        /\ usageCache' = usageCache
        /\ isFetching'
        /\ pushed' = << >>
        /\ DOMAIN backoffState' \subseteq DOMAIN backoffState
        /\ \A a \in AccountIds : retryPending'[a] <= retryPending[a]
        /\ (note'.op = "refresh") =>
             /\ cadenceTimers' = cadenceTimers
             /\ schedulerTimeoutId' = schedulerTimeoutId ]_vars

\* The user asked for a refresh while the round of the next-round timer was
\* awaiting its attempt and the window was open: the handler found the flag
\* held, nothing was sent, and the round, the flag and the snapshot of the
\* earlier round are in place.
C32_Witness ==
  /\ note.op = "refresh" /\ note.flag
  /\ isFetching /\ Len(rounds) = 1 /\ rounds[1].cont = "chain"
  /\ mainWindow = "open" /\ pushed = << >>
  /\ "a1" \in DOMAIN usageCache /\ ~usageCache["a1"].retrying
  /\ schedulerTimeoutId = "fired"

\* C33: cancelling is idempotent.  In every state, cancelRetryTimer for an
\* account without a map entry changes nothing, and cancelRetryTimer,
\* cancelAllRetryTimers and stopScheduler applied twice in a row give what
\* one application gives; cancelAllRetryTimers with an empty map and
\* stopScheduler after the next-round timer has fired leave every pending
\* timer as it is.
C33_CancellingTwiceIsOnce ==
  /\ \A a \in AccountIds :
       /\ a \notin DOMAIN retryTimers => cancelRetryTimer(Cur, a) = Cur
       /\ cancelRetryTimer(cancelRetryTimer(Cur, a), a) = cancelRetryTimer(Cur, a)
  /\ cancelAllRetryTimers(cancelAllRetryTimers(Cur)) = cancelAllRetryTimers(Cur)
  /\ retryTimers = EmptyMap =>
       /\ cancelAllRetryTimers(Cur).retryPending = retryPending
       /\ cancelAllRetryTimers(Cur).cadenceTimers = cadenceTimers
  /\ stopScheduler(stopScheduler(Cur)) = stopScheduler(Cur)
  /\ schedulerTimeoutId # "pending" =>
       stopScheduler(Cur).cadenceTimers = cadenceTimers

\* stopScheduler ran while the round of the next-round timer was in flight
\* and the retry timer of the account was pending: both timers are gone, and
\* a second stopScheduler would change nothing.
C33_Witness ==
  /\ stopped /\ Len(rounds) = 1 /\ rounds[1].cont = "chain"
  /\ lastEvent["a1"] = "failure"
  /\ schedulerTimeoutId = "null" /\ cadenceTimers = 0
  /\ retryTimers = EmptyMap /\ retryPending["a1"] = 0
  /\ stopScheduler(Cur) = Cur

\* A round returned in this step, or the retry callback of an account
\* finished.
OutcomeStep ==
  \/ note'.op = "round-end"
  \/ \E a \in AccountIds : retryRuns'[a] < retryRuns[a]

\* C34 as stated: every step in which a round returns or an isolated retry
\* finishes (success or failure) sends the snapshot collection, as it is
\* after the writes of that step, to the window.
C34_EveryOutcomeIsPushed ==
  [][ OutcomeStep => pushed' = << usageCache' >> ]_vars

\* C34: while the scheduler holds a window that is not destroyed, every step
\* in which a round returns or an isolated retry finishes (success or
\* failure) sends the snapshot collection once, as it is after the writes of
\* that step: it holds the snapshot written for the attempt that settled,
\* marked retrying exactly if the attempt failed, and a snapshot of every
\* account the round attempted.  Without a window, or with a destroyed one,
\* such a step sends nothing.
C34_PushedWhileWindowOpen ==
  [][ OutcomeStep =>
        IF mainWindow = "open"
        THEN /\ pushed' = << usageCache' >>
             /\ \A a \in AccountIds :
                  AttemptStep(a) =>
                    /\ a \in DOMAIN pushed'[1]
                    /\ pushed'[1][a].retrying <=> lastEvent'[a] = "failure"
             /\ note'.op = "round-end" =>
                  \A i \in 1..Len(note'.done) : note'.done[i] \in DOMAIN pushed'[1]
        ELSE pushed' = << >> ]_vars

\* An isolated retry failed while the window was open: the collection sent
\* holds the snapshot marked retrying with the figures of the earlier
\* success, and the next retry is armed.
C34_Witness ==
  /\ mainWindow = "open" /\ note.op # "round-end"
  /\ pushed = << usageCache >>
  /\ lastEvent["a1"] = "failure" /\ pushed[1]["a1"].retrying
  /\ pushed[1]["a1"].currentSession = 42
  /\ "a1" \in DOMAIN retryTimers

\* C35: at any time an account has at most one retry timer pending, the one
\* the map holds for it: no timer is left running when its map entry is
\* replaced or deleted, also when a round failure arms a timer while an
\* isolated retry of the account is in flight and that retry then fails.
C35_OneRetryTimerPerAccount ==
  \A a \in AccountIds :
    retryPending[a] = IF a \in DOMAIN retryTimers THEN 1 ELSE 0

\* A round failed for the account while its isolated retry, started by the
\* timer of the earlier failure, was still in flight: one timer is pending,
\* the round's, with the delay of the second failure; the failure of the
\* retry will schedule the next.
C35_Witness ==
  /\ note.op = "round-end" /\ lastEvent["a1"] = "failure"
  /\ failCount["a1"] = 2 /\ retryRuns["a1"] = 1
  /\ "a1" \in DOMAIN retryTimers /\ retryTimers["a1"] = 2 * INITIAL_BACKOFF_MS
  /\ retryPending["a1"] = 1

\* C36: while the scheduler is started (not stopped, its next-round timer
\* pending) and no round is executing, every account whose snapshot is marked
\* retrying has a retry timer pending or an isolated retry in flight.
C36_RetryingIsBeingRetried ==
  (~stopped /\ schedulerTimeoutId = "pending" /\ rounds = << >>) =>
    \A a \in DOMAIN usageCache :
      usageCache[a].retrying => (a \in DOMAIN retryTimers \/ retryRuns[a] > 0)

\* C37: from a stopScheduler call to the next startScheduler call, no step
\* (a timer that fires, an attempt in flight that settles) starts a round,
\* starts an isolated retry or arms a next-round timer or a retry timer.
C37_StoppedStaysQuiet ==
  [][ (stopped /\ stopped') =>
        /\ Len(rounds') <= Len(rounds)
        /\ cadenceTimers' <= cadenceTimers
        /\ \A a \in AccountIds :
             /\ retryRuns'[a] <= retryRuns[a]
             /\ retryPending'[a] <= retryPending[a] ]_vars

\* The rounds in flight that await the attempt of the account.
Awaiting(rs, a) ==
  { k \in 1..Len(rs) : rs[k].accounts[rs[k].idx].id = a }

\* C38: once an account has left the settings and the scheduler was
\* restarted (the remove-account handler does both in one step), no step
\* starts an attempt for it, in a round or as an isolated retry, writes a
\* snapshot for it, or writes a backoff entry or arms a retry timer for it.
C38_RemovedAccountLeftAlone ==
  [][ \A a \in AccountIds \ KnownAccounts :
        /\ Cardinality(Awaiting(rounds', a)) <= Cardinality(Awaiting(rounds, a))
        /\ retryRuns'[a] <= retryRuns[a]
        /\ Entry(usageCache', a) = Entry(usageCache, a)
        /\ a \in DOMAIN backoffState' =>
             (a \in DOMAIN backoffState /\ backoffState'[a] = backoffState[a])
        /\ retryPending'[a] <= retryPending[a] ]_vars

\* C39: once the engine has decided, no step writes to the child: a delayed
\* keystroke or command scheduled before the decision is not delivered
\* after it.
C39_NoWriteAfterDecision ==
  [][ eng.decided => eng'.written = eng.written ]_vars

\* C40: a step in which an attempt of an account fails (round or isolated
\* retry) emits no alert and leaves the fired-threshold records as they
\* were, whatever figures the preserved snapshot holds.
C40_FailureNeverAlerts ==
  [][ \A a \in AccountIds :
        (lastEvent'[a] = "failure" /\ failCount'[a] = failCount[a] + 1) =>
          /\ alerts' = << >>
          /\ \A b \in AccountIds, dim \in {"session", "weekly"} :
               Fired(notifiedThresholds', b, dim) = Fired(notifiedThresholds, b, dim)
    ]_vars

\* An attempt failed while a callback was registered, the preserved snapshot
\* held 85 % / 100 % and no threshold was recorded for the account (the
\* record had been cleared): nothing was alerted and nothing recorded.
C40_Witness ==
  /\ notificationCallback /\ lastEvent["a1"] = "failure" /\ failCount["a1"] = 1
  /\ usageCache["a1"].retrying
  /\ usageCache["a1"].currentSession = 85 /\ usageCache["a1"].weeklyUsage = 100
  /\ "a1" \notin DOMAIN notifiedThresholds
  /\ alerts = << >> /\ "a1" \in DOMAIN retryTimers
  /\ retryTimers["a1"] = INITIAL_BACKOFF_MS /\ backoffState["a1"] = 2 * INITIAL_BACKOFF_MS

====
